---- MODULE Spec2Model ----
(***************************************************************************)
(* Model of disentanglement_lib's setup.py: the single setup() call of the *)
(* manifest, the checks and the script build that setuptools runs on its   *)
(* arguments, and the requirement set an installer derives from            *)
(* install_requires and the selected extras.                               *)
(*                                                                         *)
(* Strings are the manifest's own literals; they are scanned character by  *)
(* character (SubSeq on strings) where the manifest's consumer parses them. *)
(***************************************************************************)
EXTENDS Integers, Sequences, FiniteSets, TLC

VARIABLES pc, packages, calls, dist, reqIdx, parsed, scriptIdx, built,
          extras, queue, resolved

vars == <<pc, packages, calls, dist, reqIdx, parsed, scriptIdx, built,
          extras, queue, resolved>>

(***************************************************************************)
(* Bounds                                                                  *)
(***************************************************************************)
\* Number of package directories find_packages() may discover.
MaxPackages == 2

(***************************************************************************)
(* The literals of the manifest (setup.py lines 21-78)                     *)
(***************************************************************************)
name == "disentanglement_lib"

version == "1.5"

license == "Apache 2.0"

scripts_misspelled ==
  << "bin/dlib_aggregate_results",
     "bin/dlib_reproduce",
     "bin/dlib_reason",
     "bin/dlib_visualize_dataset",
     "bin/dlib_evaluate",
     "bin/dlib_udr",
     "bin/dlib_postprocess",
     "bin/dlib_train",
     "bin/dlib_visualize_dataset",
     "bin/dlib_visualise_model",
     "bin/dlib_tests",
     "bin/dlib_download_data",
     "bin/dlib_reproduce_jmlr",
     "bin/dlib_reproduce_semi_supervised",
     "bin/dlib_reproduce_weakly_supervised",
     "bin/dlib_train_semi_supervised",
     "bin/dlib_train_weakly_supervised" >>

scripts_wrong_dir ==
  << "bin/dlib_aggregate_results",
     "bin/dlib_reproduce",
     "bin/dlib_reason",
     "bin/dlib_visualize_dataset",
     "bin/dlib_evaluate",
     "bin/dlib_udr",
     "bin/dlib_postprocess",
     "bin/dlib_train",
     "bin/dlib_visualize_dataset",
     "bin/dlib_visualize_model",
     "bin/dlib_tests",
     "scripts/dlib_download_data",
     "bin/dlib_reproduce_jmlr",
     "bin/dlib_reproduce_semi_supervised",
     "bin/dlib_reproduce_weakly_supervised",
     "bin/dlib_train_semi_supervised",
     "bin/dlib_train_weakly_supervised" >>

scripts ==
  << "bin/dlib_aggregate_results",
     "bin/dlib_reproduce",
     "bin/dlib_reason",
     "bin/dlib_visualize_dataset",
     "bin/dlib_evaluate",
     "bin/dlib_udr",
     "bin/dlib_postprocess",
     "bin/dlib_train",
     "bin/dlib_visualize_dataset",
     "bin/dlib_visualize_model",
     "bin/dlib_tests",
     "bin/dlib_download_data",
     "bin/dlib_reproduce_jmlr",
     "bin/dlib_reproduce_semi_supervised",
     "bin/dlib_reproduce_weakly_supervised",
     "bin/dlib_train_semi_supervised",
     "bin/dlib_train_weakly_supervised" >>

install_requires_range ==
  << "future==0.17.1",
     "imageio==2.5.0",
     "gin-config==0.1.4",
     "scikit-learn==0.20.3",
     "numpy>=1.16.3",
     "pandas==0.24.2",
     "simplejson==3.16.0",
     "six==1.12.0",
     "matplotlib==3.0.3",
     "Pillow==6.0.0",
     "scipy==1.2.1",
     "tensorflow-hub==0.4.0",
     "tensorflow_probability==0.7.0",
     "seaborn==0.11.0" >>

install_requires_unparsable ==
  << "future==0.17.1",
     "imageio==2.5.0",
     "gin-config==0.1.4",
     "scikit-learn==0.20.3",
     "numpy==1.16.3",
     "pandas==0.24.2",
     "simplejson==3.16.0",
     "six==1.12.0",
     "matplotlib=3.0.3",
     "Pillow==6.0.0",
     "scipy==1.2.1",
     "tensorflow-hub==0.4.0",
     "tensorflow_probability==0.7.0",
     "seaborn==0.11.0" >>

install_requires_with_tf ==
  << "future==0.17.1",
     "imageio==2.5.0",
     "gin-config==0.1.4",
     "scikit-learn==0.20.3",
     "numpy==1.16.3",
     "pandas==0.24.2",
     "simplejson==3.16.0",
     "six==1.12.0",
     "matplotlib==3.0.3",
     "Pillow==6.0.0",
     "scipy==1.2.1",
     "tensorflow==1.14",
     "tensorflow-hub==0.4.0",
     "tensorflow_probability==0.7.0",
     "seaborn==0.11.0" >>

install_requires_twice ==
  << "future==0.17.1",
     "imageio==2.5.0",
     "gin-config==0.1.4",
     "scikit-learn==0.20.3",
     "numpy==1.16.3",
     "pandas==0.24.2",
     "simplejson==3.16.0",
     "six==1.12.0",
     "matplotlib==3.0.3",
     "Pillow==6.0.0",
     "scipy==1.2.1",
     "tensorflow-hub==0.4.0",
     "tensorflow_probability==0.7.0",
     "tensorflow-probability==0.8.0",
     "seaborn==0.11.0" >>

install_requires ==
  << "future==0.17.1",
     "imageio==2.5.0",
     "gin-config==0.1.4",
     "scikit-learn==0.20.3",
     "numpy==1.16.3",
     "pandas==0.24.2",
     "simplejson==3.16.0",
     "six==1.12.0",
     "matplotlib==3.0.3",
     "Pillow==6.0.0",
     "scipy==1.2.1",
     "tensorflow-hub==0.4.0",
     "tensorflow_probability==0.7.0",
     "seaborn==0.11.0" >>

extras_require_unparsable ==
  [ tf     |-> << "tensorflow==1.14" >>,
    tf_gpu |-> << "tensorflow-gpu=1.14" >> ]

extras_require_versions_differ ==
  [ tf     |-> << "tensorflow==1.14" >>,
    tf_gpu |-> << "tensorflow-gpu==1.15" >> ]

extras_require ==
  [ tf     |-> << "tensorflow==1.14" >>,
    tf_gpu |-> << "tensorflow-gpu==1.14" >> ]

description == "Library for research on disentangled representations."

author == "DisentanglementLib Authors"

author_email == "no-reply@google.com"

url == "http://github.com/google-research/disentanglement_lib"

include_package_data == TRUE

classifiers ==
  << "Development Status :: 4 - Beta",
     "Intended Audience :: Developers",
     "Intended Audience :: Science/Research",
     "License :: OSI Approved :: Apache Software License",
     "Topic :: Scientific/Engineering :: Artificial Intelligence" >>

keywords == "tensorflow machine learning disentanglement learning"

\* The call with the license argument left out.
Manifest_no_license(pkgs) ==
  [ name                 |-> name,
    version              |-> version,
    description          |-> description,
    author               |-> author,
    author_email         |-> author_email,
    url                  |-> url,
    license              |-> "",
    packages             |-> pkgs,
    include_package_data |-> include_package_data,
    scripts              |-> scripts,
    install_requires     |-> install_requires,
    extras_require       |-> extras_require,
    classifiers          |-> classifiers,
    keywords             |-> keywords ]

\* The keyword arguments of the setup() call; pkgs is what find_packages()
\* returned.
Manifest(pkgs) ==
  [ name                 |-> name,
    version              |-> version,
    description          |-> description,
    author               |-> author,
    author_email         |-> author_email,
    url                  |-> url,
    license              |-> license,
    packages             |-> pkgs,
    include_package_data |-> include_package_data,
    scripts              |-> scripts,
    install_requires     |-> install_requires,
    extras_require       |-> extras_require,
    classifiers          |-> classifiers,
    keywords             |-> keywords ]

\* The distribution before setup() has been called: nothing registered.
NoDist ==
  [ name                 |-> "",
    version              |-> "",
    description          |-> "",
    author               |-> "",
    author_email         |-> "",
    url                  |-> "",
    license              |-> "",
    packages             |-> {},
    include_package_data |-> FALSE,
    scripts              |-> << >>,
    install_requires     |-> << >>,
    extras_require       |-> << >>,
    classifiers          |-> << >>,
    keywords             |-> "" ]

(***************************************************************************)
(* The environment of the manifest                                         *)
(***************************************************************************)
\* The package directories find_packages() can discover under the
\* directory of setup.py.
PackageDirs == 1 .. MaxPackages

\* The console scripts the package installs (spec, External Interfaces).
ConsoleScripts ==
  { "dlib_aggregate_results", "dlib_reproduce", "dlib_reason",
    "dlib_visualize_dataset", "dlib_evaluate", "dlib_udr",
    "dlib_postprocess", "dlib_train", "dlib_visualize_model", "dlib_tests",
    "dlib_download_data", "dlib_reproduce_jmlr",
    "dlib_reproduce_semi_supervised", "dlib_reproduce_weakly_supervised",
    "dlib_train_semi_supervised", "dlib_train_weakly_supervised" }

\* The files of the repository's bin/ directory, relative to setup.py: one
\* file per installed console script.
BinFiles == { "bin/" \o n : n \in ConsoleScripts }

\* The files of bin/ that carry the executable bit.
ExecutableFiles == BinFiles

(***************************************************************************)
(* Scanning strings                                                        *)
(***************************************************************************)
LowerCase == "abcdefghijklmnopqrstuvwxyz"

UpperCase == "ABCDEFGHIJKLMNOPQRSTUVWXYZ"

Digits == "0123456789"

Char(s, i) == SubSeq(s, i, i)

\* The characters of an alphabet.
Chars(alphabet) == { Char(alphabet, i) : i \in 1 .. Len(alphabet) }

DigitChars == Chars(Digits)

AlnumChars == Chars(LowerCase) \cup Chars(UpperCase) \cup DigitChars

NameChars == AlnumChars \cup { "-", "_", "." }

IsAlnum(c) == c \in AlnumChars

IsNameChar(c) == c \in NameChars

\* The text of s from position i to its end.
From(s, i) == IF i > Len(s) THEN "" ELSE SubSeq(s, i, Len(s))

\* n is the last position of the leading run of name characters of s
\* (0 when s does not start with one).
IsNameEnd(s, n) ==
  /\ \A j \in 1 .. n : IsNameChar(Char(s, j))
  /\ n = Len(s) \/ ~ IsNameChar(Char(s, n + 1))

\* The comparison operator of s at position i, longest first ("" if none).
OperatorAt(s, i) ==
  IF i + 2 <= Len(s) /\ SubSeq(s, i, i + 2) = "===" THEN "==="
  ELSE IF i + 1 <= Len(s)
          /\ SubSeq(s, i, i + 1) \in { "==", ">=", "<=", "~=", "!=" }
       THEN SubSeq(s, i, i + 1)
  ELSE IF i <= Len(s) /\ Char(s, i) \in { "<", ">" } THEN Char(s, i)
  ELSE ""

\* v is one or more numbers separated by single dots.
IsDottedNumber(v) ==
  /\ Len(v) > 0
  /\ \A i \in 1 .. Len(v) : Char(v, i) \in DigitChars \cup { "." }
  /\ Char(v, 1) # "."
  /\ Char(v, Len(v)) # "."
  /\ \A i \in 1 .. Len(v) - 1 : ~ (Char(v, i) = "." /\ Char(v, i + 1) = ".")

\* A requirement string read as <name><operator><version>: the name is the
\* leading run of name characters, the operator follows it, the version is
\* everything after the operator. ok: all three are well formed and nothing
\* is left over.
RequirementParts(s, n, o) ==
  [ ok      |-> /\ n > 0
                /\ IsAlnum(Char(s, 1))
                /\ IsAlnum(Char(s, n))
                /\ o # ""
                /\ IsDottedNumber(From(s, n + Len(o) + 1)),
    name    |-> IF n > 0 THEN SubSeq(s, 1, n) ELSE "",
    op      |-> o,
    version |-> From(s, n + Len(o) + 1) ]

ParseRequirement(s) ==
  CHOOSE r \in { RequirementParts(s, n, OperatorAt(s, n + 1)) :
                   n \in { k \in 0 .. Len(s) : IsNameEnd(s, k) } } : TRUE

\* One character of a project name, normalised: case-folded, with '_' and
\* '.' read as '-'.
NormaliseChar(c) ==
  IF c \in { "_", "." } THEN "-"
  ELSE IF c \in Chars(UpperCase)
       THEN Char(LowerCase, CHOOSE i \in 1 .. Len(UpperCase) : Char(UpperCase, i) = c)
  ELSE c

RECURSIVE NormaliseFrom(_, _)
NormaliseFrom(s, i) ==
  IF i > Len(s) THEN "" ELSE NormaliseChar(Char(s, i)) \o NormaliseFrom(s, i + 1)

\* A project name in normalised form.
Normalise(s) == NormaliseFrom(s, 1)

RECURSIVE LastSlash(_, _)
\* The position of the last '/' of path at or before i (0 when there is none).
LastSlash(path, i) ==
  IF i = 0 THEN 0 ELSE IF Char(path, i) = "/" THEN i ELSE LastSlash(path, i - 1)

\* The file name of a path: what follows its last '/'.
Basename(path) == From(path, LastSlash(path, Len(path)) + 1)

\* The directory of a path: what precedes its last '/'.
Dirname(path) ==
  IF LastSlash(path, Len(path)) <= 1 THEN ""
  ELSE SubSeq(path, 1, LastSlash(path, Len(path)) - 1)

RECURSIVE SetToSeq(_)
\* The members of a set, in a fixed order.
SetToSeq(S) ==
  IF S = {} THEN << >>
  ELSE LET x == CHOOSE y \in S : TRUE IN << x >> \o SetToSeq(S \ { x })

RECURSIVE Flatten(_)
\* The concatenation of a sequence of sequences.
Flatten(ss) == IF ss = << >> THEN << >> ELSE Head(ss) \o Flatten(Tail(ss))

\* The requirement strings of the extras of er named in keys.
ExtraRequirements(er, keys) ==
  Flatten([ i \in 1 .. Len(SetToSeq(keys)) |-> er[SetToSeq(keys)[i]] ])

\* Every requirement string of a distribution: install_requires, then the
\* lists of all its extras.
AllRequirements(d) ==
  d.install_requires \o ExtraRequirements(d.extras_require, DOMAIN d.extras_require)

(***************************************************************************)
(* Running the manifest                                                    *)
(***************************************************************************)
Init ==
  /\ pc = "start"
  /\ packages = {}
  /\ calls = 0
  /\ dist = NoDist
  /\ reqIdx = 1
  /\ parsed = << >>
  /\ scriptIdx = 1
  /\ built = << >>
  /\ extras = {}
  /\ queue = << >>
  /\ resolved = << >>

\* packages=find_packages(): the argument is evaluated before the call.
FindPackages ==
  /\ pc = "start"
  /\ \E found \in SUBSET PackageDirs : packages' = found
  /\ pc' = "setup"
  /\ UNCHANGED <<calls, dist, reqIdx, parsed, scriptIdx, built, extras, queue, resolved>>

\* setup(...): the one call of the module; the distribution takes the
\* keyword arguments.
Setup ==
  /\ pc = "setup"
  /\ calls' = calls + 1
  /\ dist' = Manifest(packages)
  /\ pc' = "requires"
  /\ UNCHANGED <<packages, reqIdx, parsed, scriptIdx, built, extras, queue, resolved>>

\* Inside setup(): each requirement string of install_requires and of the
\* extras is parsed; one that does not parse aborts the run.
CheckRequirement ==
  /\ pc = "requires"
  /\ IF reqIdx > Len(AllRequirements(dist))
     THEN /\ pc' = "scripts"
          /\ UNCHANGED <<reqIdx, parsed>>
     ELSE \E r \in { ParseRequirement(s) : s \in { AllRequirements(dist)[reqIdx] } } :
            IF r.ok
            THEN /\ parsed' = Append(parsed, r)
                 /\ reqIdx' = reqIdx + 1
                 /\ pc' = pc
            ELSE /\ pc' = "error"
                 /\ UNCHANGED <<reqIdx, parsed>>
  /\ UNCHANGED <<packages, calls, dist, scriptIdx, built, extras, queue, resolved>>

\* Inside setup(): each entry of scripts is copied from the source tree to
\* the build under its file name; an entry with no file aborts the run.
BuildScript ==
  /\ pc = "scripts"
  /\ IF scriptIdx > Len(dist.scripts)
     THEN /\ pc' = "exit"
          /\ UNCHANGED <<scriptIdx, built>>
     ELSE LET s == dist.scripts[scriptIdx]
          IN  IF s \in BinFiles
              THEN /\ built' = Append(built, [ path       |-> s,
                                               name       |-> Basename(s),
                                               executable |-> s \in ExecutableFiles ])
                   /\ scriptIdx' = scriptIdx + 1
                   /\ pc' = pc
              ELSE /\ pc' = "error"
                   /\ UNCHANGED <<scriptIdx, built>>
  /\ UNCHANGED <<packages, calls, dist, reqIdx, parsed, extras, queue, resolved>>

\* The installer is asked for the package with a selection of its extras:
\* the requirements to resolve are install_requires and the selected lists.
SelectExtras ==
  /\ pc = "exit"
  /\ \E selected \in SUBSET (DOMAIN dist.extras_require) :
       /\ extras' = selected
       /\ queue' = dist.install_requires \o ExtraRequirements(dist.extras_require, selected)
  /\ pc' = "resolve"
  /\ UNCHANGED <<packages, calls, dist, reqIdx, parsed, scriptIdx, built, resolved>>

\* The installer takes the next requirement: its project name is
\* normalised and the pin is added to the resolved set.
Resolve ==
  /\ pc = "resolve"
  /\ IF queue = << >>
     THEN /\ pc' = "done"
          /\ UNCHANGED <<queue, resolved>>
     ELSE \E r \in { ParseRequirement(s) : s \in { Head(queue) } } :
            /\ resolved' = Append(resolved, [ name    |-> Normalise(r.name),
                                              op      |-> r.op,
                                              version |-> r.version ])
            /\ queue' = Tail(queue)
            /\ pc' = pc
  /\ UNCHANGED <<packages, calls, dist, reqIdx, parsed, scriptIdx, built, extras>>

Next ==
  \/ FindPackages
  \/ Setup
  \/ CheckRequirement
  \/ BuildScript
  \/ SelectExtras
  \/ Resolve

Spec == Init /\ [][Next]_vars

\* The run is not interrupted: a step that can be taken is taken.
FairSpec == Spec /\ WF_vars(Next)

TypeOK ==
  /\ pc \in { "start", "setup", "requires", "scripts", "exit", "resolve", "done", "error" }
  /\ packages \subseteq PackageDirs
  /\ calls \in 0 .. 1
  /\ reqIdx \in 1 .. Len(AllRequirements(Manifest({}))) + 1
  /\ scriptIdx \in 1 .. Len(scripts) + 1
  /\ extras \subseteq DOMAIN extras_require

(***************************************************************************)
(* Properties                                                              *)
(***************************************************************************)
\* setup() has been called: the distribution holds the manifest's arguments.
Called == pc \notin { "start", "setup" }

\* Every requirement has been checked and every script built.
Exited == pc \in { "exit", "resolve", "done" }

\* The comparison operators of a version constraint.
ComparisonOperators == { "===", "==", ">=", "<=", "~=", "!=", "<", ">" }

\* The requirement of reqs whose normalised project name is n pins version v.
Pins(reqs, n, v) ==
  \E i \in DOMAIN reqs :
    LET r == ParseRequirement(reqs[i])
    IN  r.ok /\ Normalise(r.name) = n /\ r.op = "==" /\ r.version = v

\* The TensorFlow builds.
TensorFlowPackages == { "tensorflow", "tensorflow-gpu" }

\* The positions of rs that name a TensorFlow build.
TensorFlowEntries(rs) == { i \in DOMAIN rs : rs[i].name \in TensorFlowPackages }

\* C1: the names registered by setup(scripts=...) are exactly the 16 console
\* scripts the spec lists: every listed name has an entry 'bin/<name>' in
\* the scripts list, and every entry of the list is 'bin/<name>' for a
\* listed name.
C1_ScriptsAreTheListedNames ==
  Called =>
    /\ Cardinality(ConsoleScripts) = 16
    /\ \A n \in ConsoleScripts :
         \E i \in DOMAIN dist.scripts : dist.scripts[i] = "bin/" \o n
    /\ \A i \in DOMAIN dist.scripts :
         /\ Dirname(dist.scripts[i]) = "bin"
         /\ Basename(dist.scripts[i]) \in ConsoleScripts

C1_Witness ==
  /\ pc = "requires"
  /\ reqIdx = 1
  /\ \E i \in DOMAIN dist.scripts : dist.scripts[i] = "bin/dlib_train"

\* C2: every entry of install_requires is an exact pin '<name>==<version>'
\* (non-empty name, operator '==', non-empty dotted numeric version, no
\* range operator); numpy is pinned to 1.16.3, pandas to 0.24.2,
\* scikit-learn to 0.20.3, tensorflow-hub to 0.4.0 and
\* tensorflow-probability (after name normalisation) to 0.7.0.
C2_InstallRequiresExactPins ==
  Called =>
    /\ \A i \in DOMAIN dist.install_requires :
         LET r == ParseRequirement(dist.install_requires[i])
         IN  /\ r.ok
             /\ Len(r.name) > 0
             /\ r.op = "=="
             /\ Len(r.version) > 0
             /\ IsDottedNumber(r.version)
             /\ r.name \o "==" \o r.version = dist.install_requires[i]
    /\ Pins(dist.install_requires, "numpy", "1.16.3")
    /\ Pins(dist.install_requires, "pandas", "0.24.2")
    /\ Pins(dist.install_requires, "scikit-learn", "0.20.3")
    /\ Pins(dist.install_requires, "tensorflow-hub", "0.4.0")
    /\ Pins(dist.install_requires, "tensorflow-probability", "0.7.0")

C2_Witness ==
  /\ pc = "requires"
  /\ Len(parsed) = Len(dist.install_requires)
  /\ Len(parsed) > 0
  /\ \E i \in DOMAIN parsed : parsed[i].name = "tensorflow_probability"

\* C3: every dependency string of the manifest, in install_requires and in
\* every extras_require list, parses as a name/version constraint: a name of
\* letters, digits, '-', '_' and '.', one comparison operator, a version of
\* dot-separated numbers, and nothing left over. The check of the
\* requirements never aborts the run.
C3_EveryRequirementParses ==
  /\ pc = "error" => reqIdx > Len(AllRequirements(dist))
  /\ \A i \in DOMAIN parsed :
       /\ parsed[i].ok
       /\ Len(parsed[i].name) > 0
       /\ \A k \in 1 .. Len(parsed[i].name) : IsNameChar(Char(parsed[i].name, k))
       /\ parsed[i].op \in ComparisonOperators
       /\ IsDottedNumber(parsed[i].version)
       /\ parsed[i].name \o parsed[i].op \o parsed[i].version
            = AllRequirements(dist)[i]
  /\ pc \in { "scripts", "exit", "resolve", "done" } =>
       Len(parsed) = Len(AllRequirements(dist))

C3_Witness ==
  /\ pc = "scripts"
  /\ scriptIdx = 1
  /\ Len(parsed) = Len(AllRequirements(dist))
  /\ \E i \in DOMAIN parsed : parsed[i].name = "tensorflow-gpu"

\* C4: extras_require has exactly the keys 'tf' and 'tf_gpu'; 'tf' holds
\* exactly one requirement, on 'tensorflow', and 'tf_gpu' exactly one, on
\* 'tensorflow-gpu'; both pin the same version, 1.14.
C4_ExtraSelectsTheBuild ==
  Called =>
    /\ DOMAIN dist.extras_require = { "tf", "tf_gpu" }
    /\ Len(dist.extras_require["tf"]) = 1
    /\ Len(dist.extras_require["tf_gpu"]) = 1
    /\ LET cpu == ParseRequirement(dist.extras_require["tf"][1])
           gpu == ParseRequirement(dist.extras_require["tf_gpu"][1])
       IN  /\ cpu.ok /\ gpu.ok
           /\ cpu.name = "tensorflow"
           /\ gpu.name = "tensorflow-gpu"
           /\ cpu.op = "==" /\ gpu.op = "=="
           /\ cpu.version = gpu.version
           /\ cpu.version = "1.14"

C4_Witness ==
  /\ pc = "done"
  /\ extras = { "tf_gpu" }
  /\ \E i \in DOMAIN resolved :
       resolved[i].name = "tensorflow-gpu" /\ resolved[i].version = "1.14"

\* C5: the name, version and license passed to setup() are non-empty
\* strings: 'disentanglement_lib', '1.5' and 'Apache 2.0'.
C5_NameVersionLicense ==
  Called =>
    /\ Len(dist.name) > 0 /\ dist.name = "disentanglement_lib"
    /\ Len(dist.version) > 0 /\ dist.version = "1.5"
    /\ Len(dist.license) > 0 /\ dist.license = "Apache 2.0"

C5_Witness ==
  /\ pc = "requires"
  /\ calls = 1
  /\ reqIdx = 2
  /\ dist.name # ""

C7_OneCallThenExit ==
  /\ <>(pc = "exit")
  /\ [](Called => calls = 1 /\ dist = Manifest(packages))
  /\ [](~ Called => calls = 0)

C7_Witness ==
  /\ pc = "exit"
  /\ calls = 1
  /\ dist = Manifest(packages)
  /\ packages # {}

\* C8: the scripts list has no duplicate entry: the number of entries of
\* setup(scripts=...) equals the number of distinct script names, 16.
C8_NoDuplicateScript ==
  Called =>
    /\ \A i, j \in DOMAIN dist.scripts :
         dist.scripts[i] = dist.scripts[j] => i = j
    /\ Len(dist.scripts) = Cardinality({ Basename(dist.scripts[i]) : i \in DOMAIN dist.scripts })
    /\ Len(dist.scripts) = 16

\* C9: no entry of install_requires names 'tensorflow' or 'tensorflow-gpu';
\* an install that selects no extra resolves tensorflow-hub and
\* tensorflow-probability and no TensorFlow package, and an install that
\* selects one extra adds exactly one TensorFlow package.
C9_TensorFlowOnlyByExtra ==
  /\ Called =>
       \A i \in DOMAIN dist.install_requires :
         Normalise(ParseRequirement(dist.install_requires[i]).name)
           \notin TensorFlowPackages
  /\ (pc = "done" /\ extras = {}) =>
       /\ TensorFlowEntries(resolved) = {}
       /\ \E i \in DOMAIN resolved : resolved[i].name = "tensorflow-hub"
       /\ \E i \in DOMAIN resolved : resolved[i].name = "tensorflow-probability"
  /\ (pc = "done" /\ Cardinality(extras) = 1) =>
       /\ Cardinality(TensorFlowEntries(resolved)) = 1
       /\ Len(resolved) = Len(dist.install_requires) + 1
       /\ \A i \in 1 .. Len(dist.install_requires) :
            resolved[i].name \notin TensorFlowPackages

C9_Witness ==
  /\ pc = "done"
  /\ extras = { "tf" }
  /\ Cardinality(TensorFlowEntries(resolved)) = 1

\* C10: for every selection of extras (none, 'tf', 'tf_gpu', both) no
\* normalised package name is required more than once, so no selection
\* yields two different pins for one package: the names of install_requires
\* are distinct and none of them is named by an extra.
C10_NoConflictingPins ==
  /\ \A i, j \in DOMAIN resolved :
       resolved[i].name = resolved[j].name => i = j
  /\ pc = "done" =>
       Len(resolved) = Len(dist.install_requires) + Cardinality(extras)

C10_Witness ==
  /\ pc = "done"
  /\ extras = { "tf", "tf_gpu" }
  /\ Len(resolved) = Len(dist.install_requires) + 2

====
